---- MODULE Spec2Model ----
(***************************************************************************)
(* Short Deck: the rules engine of src/main.py (class Game and             *)
(* HandEvaluator) as a state machine.  Presentation state (positions,      *)
(* fade alpha, sounds, pot/level names) is left out; every field that a    *)
(* handler reads to decide something is kept.                              *)
(*                                                                         *)
(* Money is kept in integer cents: every assignment to self.money in the   *)
(* source is round(..., 2), so the float always denotes a whole number of  *)
(* cents.  Time is kept in units of 0.5 s; the two timestamps of the       *)
(* source (animation_start_time, round_complete_start_time) are kept as    *)
(* the elapsed time get_ticks() - start, which is all the code reads.      *)
(***************************************************************************)
EXTENDS Integers, Sequences, FiniteSets, TLC

VARIABLES deck, hand, discard_pile, animated_cards,
          score, points, hand_type, round, hands_remaining,
          base_points_required, points_remaining, game_over,
          max_discards_per_round, discards_remaining, max_hand_size,
          scoring_animation, animation_elapsed,
          round_complete_animation, round_complete_elapsed,
          show_round_recap, round_complete, show_shop_menu,
          money, money_earned_this_round, interest_earned_this_round,
          interest_count

cardVars  == <<deck, hand, discard_pile, animated_cards>>
roundVars == <<score, points, hand_type, round, hands_remaining,
               base_points_required, points_remaining, game_over,
               max_discards_per_round, discards_remaining, max_hand_size>>
phaseVars == <<scoring_animation, animation_elapsed,
               round_complete_animation, round_complete_elapsed,
               show_round_recap, round_complete, show_shop_menu>>
moneyVars == <<money, money_earned_this_round, interest_earned_this_round>>
gameVars  == <<cardVars, roundVars, phaseVars, moneyVars>>
\* interest_count is a history variable: the number of times interest has been
\* applied since the round started
vars      == <<gameVars, interest_count>>

----------------------------------------------------------------------------
(* Bounds of the exploration (not program constants).                      *)

\* random.shuffle is modelled as a choice among this many permutations.
NumShuffles == 2
\* Card clicks land on hand positions 1..MaxClickIndex.
MaxClickIndex == 6
\* Continue is explored while round < MaxRound.
MaxRound == 4
\* Play Hand is explored while hands_remaining > -MaxOverdraw.
MaxOverdraw == 2
\* Discard is explored in rounds 1..MaxDiscardRound.
MaxDiscardRound == 1
\* Under SpecAnyPhase, Discard is explored while at most this many hands of
\* the round have been played.
MaxPlaysBeforeDiscard == 0
\* A tick advances the clock by MinTickStep..MaxTickStep units of 0.5 s.
MinTickStep == 2
MaxTickStep == 3

----------------------------------------------------------------------------
(* Program constants.                                                      *)

NumSuits == 5
NumRanks == 7
LowestRank == 8
StartingHands == 5
StartingTarget == 100
StartingDiscards == 3
StartingHandSize == 8
MaxSelected == 5
ReshuffleBelow == 5
\* 3.5 s and 1.5 s in units of 0.5 s
ScoringEnd == 7
RoundCompleteEnd == 3
CostExtraDiscard == 500
CostLargerHand == 1000
CostBonusPoints == 1500

Suits == <<"SPADES", "HEARTS", "DIAMONDS", "CLUBS", "STARS">>
Ranks == LowestRank .. (LowestRank + NumRanks - 1)

Card(s, r) == [suit |-> s, rank |-> r, selected |-> FALSE]

\* [Card(suit, rank) for suit in Suit for rank in Rank]
FullDeck ==
    [i \in 1 .. (NumSuits * NumRanks) |->
        Card(Suits[((i - 1) \div NumRanks) + 1], LowestRank + ((i - 1) % NumRanks))]

Identity(c) == [suit |-> c.suit, rank |-> c.rank]
Range(s) == {s[i] : i \in 1 .. Len(s)}
Identities(s) == {Identity(s[i]) : i \in 1 .. Len(s)}

Min(a, b) == IF a < b THEN a ELSE b
Max(a, b) == IF a > b THEN a ELSE b

----------------------------------------------------------------------------
(* random.shuffle: one of NumShuffles permutations of the list.            *)

SuitIndex(s) == CHOOSE i \in 1 .. NumSuits : Suits[i] = s
SortKey(c) == c.rank * NumSuits + SuitIndex(c.suit)

\* s[x] comes before s[i] in the sorted list (equal cards keep their order)
SortsBefore(s, x, i) ==
    \/ SortKey(s[x]) < SortKey(s[i])
    \/ SortKey(s[x]) = SortKey(s[i]) /\ x < i

\* ascending by rank, then suit (the highest cards are popped first)
SortByRank(s) ==
    [j \in 1 .. Len(s) |->
        s[CHOOSE i \in 1 .. Len(s) :
            Cardinality({x \in 1 .. Len(s) : SortsBefore(s, x, i)}) = j - 1]]

Reverse(s) == [j \in 1 .. Len(s) |-> s[Len(s) + 1 - j]]

Rotate(s, k) == [j \in 1 .. Len(s) |-> s[((j - 1 + k) % Len(s)) + 1]]

\* the odd positions, then the even positions
Riffle(s) ==
    LET half == (Len(s) + 1) \div 2
    IN  [j \in 1 .. Len(s) |-> IF j <= half THEN s[2 * j - 1] ELSE s[2 * (j - half)]]

Shuffle(s, k) ==
    IF Len(s) = 0 THEN s
    ELSE IF k = 1 THEN SortByRank(s)
    ELSE IF k = 2 THEN Riffle(s)
    ELSE IF k = 3 THEN Reverse(s)
    ELSE Rotate(s, k)

\* Game.create_deck: the new deck, shuffled by permutation k
create_deck == [k \in 1 .. NumShuffles |-> Shuffle(FullDeck, k)]

----------------------------------------------------------------------------
(* HandEvaluator.evaluate_hand                                             *)

RankCount(cards, r) == Cardinality({i \in 1 .. Len(cards) : cards[i].rank = r})
RanksOf(cards) == {cards[i].rank : i \in 1 .. Len(cards)}
SuitsOf(cards) == {cards[i].suit : i \in 1 .. Len(cards)}
SetMax(S) == CHOOSE x \in S : \A y \in S : y <= x
SetMin(S) == CHOOSE x \in S : \A y \in S : x <= y

\* variant of Counts0: a rank counted in four suits at most
Counts0FourSuits(cards) ==
    Min(4, SetMax({RankCount(cards, r) : r \in RanksOf(cards)}))

\* counts = sorted(rank_counts.values(), reverse=True): counts[0] and counts[1]
Counts0(cards) == SetMax({RankCount(cards, r) : r \in RanksOf(cards)})
Counts1(cards) ==
    LET top == CHOOSE r \in RanksOf(cards) : RankCount(cards, r) = Counts0(cards)
    IN  SetMax({RankCount(cards, r) : r \in RanksOf(cards) \ {top}})

is_flush(cards) == Cardinality(SuitsOf(cards)) = 1

is_straight(cards) ==
    /\ Cardinality(RanksOf(cards)) = 5
    /\ SetMax(RanksOf(cards)) - SetMin(RanksOf(cards)) = 4

\* variant of FullHand: a flush of any number of cards
AnyNumberOfCards(cards) == TRUE

\* len(cards)==5
FullHand(cards) == Len(cards) = 5

\* variant of SpansTenToAce: every straight ending above the queen
SpansAboveQueen(cards) == SetMax(RanksOf(cards)) > 12

\* sorted_ranks[-1] == 14 and sorted_ranks[0] == 10
SpansTenToAce(cards) ==
    SetMax(RanksOf(cards)) = 14 /\ SetMin(RanksOf(cards)) = 10

\* the (HandType, value) pair returned, as <<name, value>>
evaluate_hand(cards) ==
    IF Len(cards) = 0 THEN <<"HIGH_CARD", 0>>
    ELSE IF /\ is_straight(cards) /\ is_flush(cards)
            /\ Cardinality(RanksOf(cards)) >= 5
            /\ SpansTenToAce(cards)
         THEN <<"ROYAL_FLUSH", 9>>
    ELSE IF is_straight(cards) /\ is_flush(cards) THEN <<"STRAIGHT_FLUSH", 8>>
    ELSE IF Counts0(cards) = 5 THEN <<"FIVE_OF_A_KIND", 10>>
    ELSE IF Counts0(cards) = 4 THEN <<"FOUR_OF_A_KIND", 7>>
    ELSE IF /\ Cardinality(RanksOf(cards)) >= 2
            /\ Counts0(cards) = 3 /\ Counts1(cards) = 2
         THEN <<"FULL_HOUSE", 6>>
    ELSE IF is_flush(cards) /\ FullHand(cards) THEN <<"FLUSH", 5>>
    ELSE IF is_straight(cards) THEN <<"STRAIGHT", 4>>
    ELSE IF Counts0(cards) = 3 THEN <<"THREE_OF_A_KIND", 3>>
    ELSE IF /\ Cardinality(RanksOf(cards)) >= 2
            /\ Counts0(cards) = 2 /\ Counts1(cards) = 2
         THEN <<"TWO_PAIR", 2>>
    ELSE IF Counts0(cards) = 2 THEN <<"PAIR", 1>>
    ELSE <<"HIGH_CARD", 0>>

----------------------------------------------------------------------------
(* Game.calculate_hand_score                                               *)

\* variant of base_points: the table without the Five of a Kind entry
base_points_ten_categories(t) ==
    CASE t = "HIGH_CARD"       -> 5
      [] t = "PAIR"            -> 10
      [] t = "TWO_PAIR"        -> 20
      [] t = "THREE_OF_A_KIND" -> 30
      [] t = "STRAIGHT"        -> 30
      [] t = "FLUSH"           -> 35
      [] t = "FULL_HOUSE"      -> 40
      [] t = "FOUR_OF_A_KIND"  -> 60
      [] t = "STRAIGHT_FLUSH"  -> 100
      [] t = "ROYAL_FLUSH"     -> 100
      [] OTHER                 -> 0

base_points(t) ==
    CASE t = "HIGH_CARD"       -> 5
      [] t = "PAIR"            -> 10
      [] t = "TWO_PAIR"        -> 20
      [] t = "THREE_OF_A_KIND" -> 30
      [] t = "STRAIGHT"        -> 30
      [] t = "FLUSH"           -> 35
      [] t = "FULL_HOUSE"      -> 40
      [] t = "FOUR_OF_A_KIND"  -> 60
      [] t = "STRAIGHT_FLUSH"  -> 100
      [] t = "ROYAL_FLUSH"     -> 100
      [] t = "FIVE_OF_A_KIND"  -> 150
      [] OTHER                 -> 0

\* variant of CardBonus: Jack +1, Queen +2, King and Ace +1
CardBonusCourtOnly(rank) == IF rank > 12 THEN 1 ELSE Max(0, rank - 10)

\* max(0, card.rank.value - 10)
CardBonus(rank) == Max(0, rank - 10)

RECURSIVE RankBonus(_)
RankBonus(cards) ==
    IF Len(cards) = 0 THEN 0
    ELSE CardBonus(Head(cards).rank) + RankBonus(Tail(cards))

\* <<hand_type, points>>; "NONE" stands for Python's None
calculate_hand_score(cards) ==
    IF Len(cards) = 0 THEN <<"NONE", 0>>
    ELSE LET t == evaluate_hand(cards)[1]
         IN  <<t, base_points(t) + RankBonus(cards)>>

----------------------------------------------------------------------------
(* Game.deal_hand                                                          *)

SelectedOf(h) == SelectSeq(h, LAMBDA c : c.selected)
UnselectedOf(h) == SelectSeq(h, LAMBDA c : ~c.selected)
NumSelected(h) == Len(SelectedOf(h))
ClearSelection(h) == [i \in 1 .. Len(h) |-> [h[i] EXCEPT !.selected = FALSE]]

\* variant of Popped: the cards are taken from the front of the deck
PoppedFromFront(d, n) == SubSeq(d, 1, n)

\* the n cards popped from the end of d, in the order they are appended
Popped(d, n) == [j \in 1 .. n |-> d[Len(d) + 1 - j]]

\* deal_hand(cards_to_discard = toDiscard) on (h, d, p); toDiscard = << >> is
\* the call with no argument (a list of selected cards of the hand otherwise).
\* k is the permutation random.shuffle picks if the deck is refilled.
deal_hand(h, d, p, maxSize, toDiscard, k) ==
    LET kept   == SelectSeq(h, LAMBDA c : c \notin Range(toDiscard))
        pile   == p \o toDiscard
        n      == Max(0, Min(maxSize - Len(kept), Len(d)))
        h2     == kept \o Popped(d, n)
        d2     == SubSeq(d, 1, Len(d) - n)
    IN  IF Len(d2) < ReshuffleBelow
        THEN [hand |-> h2, deck |-> Shuffle(pile, k), discard_pile |-> << >>]
        ELSE [hand |-> h2, deck |-> d2, discard_pile |-> pile]

----------------------------------------------------------------------------
(* Game.__init__                                                           *)

Init ==
    \E k \in 1 .. NumShuffles :
        LET dealt == deal_hand(<< >>, create_deck[k], << >>,
                               StartingHandSize, << >>, k)
        IN  /\ deck = dealt.deck
            /\ hand = dealt.hand
            /\ discard_pile = dealt.discard_pile
            /\ animated_cards = << >>
            /\ score = 0
            /\ points = 0
            /\ round = 1
            /\ hand_type = "NONE"
            /\ hands_remaining = StartingHands
            /\ base_points_required = StartingTarget
            /\ points_remaining = StartingTarget
            /\ game_over = FALSE
            /\ max_discards_per_round = StartingDiscards
            /\ discards_remaining = StartingDiscards
            /\ max_hand_size = StartingHandSize
            /\ scoring_animation = FALSE
            /\ animation_elapsed = 0
            /\ round_complete_animation = FALSE
            /\ round_complete_elapsed = 0
            /\ show_round_recap = FALSE
            /\ round_complete = FALSE
            /\ money = 0
            /\ money_earned_this_round = 0
            /\ interest_earned_this_round = 0
            /\ show_shop_menu = FALSE
            /\ interest_count = 0

----------------------------------------------------------------------------
(* Game.toggle_card_selection                                              *)

toggle_card_selection(index) ==
    IF index >= 1 /\ index <= Len(hand)
    THEN IF ~hand[index].selected /\ NumSelected(hand) >= MaxSelected
         THEN UNCHANGED gameVars
         ELSE /\ hand' = [hand EXCEPT ![index].selected = ~hand[index].selected]
              /\ UNCHANGED <<deck, discard_pile, animated_cards,
                             roundVars, phaseVars, moneyVars>>
    ELSE UNCHANGED gameVars

----------------------------------------------------------------------------
(* Game.play_hand, with start_round_complete_animation and                 *)
(* start_scoring_animation                                                 *)

\* variant of RemainingAfter: the deduction without the clamp at 0
RemainingUnclamped(remaining, pts) == remaining - pts

\* max(0, self.points_remaining - self.points)
\* variant of RemainingAfter: the distance to the target, not the clamp
RemainingReflected(remaining, pts) ==
    IF remaining < pts THEN pts - remaining ELSE remaining - pts

RemainingAfter(remaining, pts) == Max(0, remaining - pts)

\* the round is complete with this play
CompletesRound(remaining) ==
    remaining <= 0 /\ ~round_complete_animation /\ ~round_complete

\* variant of Award: the award taken after the decrement of hands_remaining
AwardAfterDecrement(hands) == (hands - 1) * 100

\* float(self.hands_remaining) dollars, in cents
Award(hands) == hands * 100

\* variant of IsGameOver: the game ends whenever the last hand is played
IsGameOverNoScore(hands, total, remaining) == hands = 0

\* the game-over test after the decrement
IsGameOver(hands, total, remaining) == hands = 0 /\ total < remaining

play_hand ==
    LET selected  == SelectedOf(hand)
        result    == calculate_hand_score(selected)
        total     == score + result[2]
        remaining == RemainingAfter(points_remaining, result[2])
        complete  == CompletesRound(remaining)
    IN  IF Len(selected) = 0
        THEN UNCHANGED gameVars
        ELSE /\ hand_type' = result[1]
             /\ points' = result[2]
             /\ score' = total
             /\ points_remaining' = remaining
             /\ IF complete
                THEN /\ round_complete' = TRUE
                     /\ money_earned_this_round' = Award(hands_remaining)
                     /\ money' = money + Award(hands_remaining)
                     /\ round_complete_animation' = TRUE
                     /\ round_complete_elapsed' = 0
                ELSE UNCHANGED <<round_complete, money_earned_this_round, money,
                                 round_complete_animation, round_complete_elapsed>>
             /\ hands_remaining' = hands_remaining - 1
             /\ game_over' = (game_over \/ IsGameOver(hands_remaining - 1, total, remaining))
             \* start_scoring_animation(selected)
             /\ scoring_animation' = TRUE
             /\ animation_elapsed' = 0
             /\ animated_cards' = selected
             /\ hand' = UnselectedOf(hand)
             /\ UNCHANGED <<deck, discard_pile, round, base_points_required,
                            max_discards_per_round, discards_remaining, max_hand_size,
                            show_round_recap, show_shop_menu,
                            interest_earned_this_round>>

----------------------------------------------------------------------------
(* The Discard branch of Game.handle_click                                 *)

\* variant of CanDiscard: the count of discards left is not tested
CanDiscardAtZero(selected) == Len(selected) > 0

\* variant of CanDiscard: the selection is not tested
CanDiscardNothing(selected) == discards_remaining > 0

CanDiscard(selected) == discards_remaining > 0 /\ Len(selected) > 0

discard_selected ==
    LET selected_to_discard == SelectedOf(hand)
    IN  IF CanDiscard(selected_to_discard)
        THEN \E k \in 1 .. NumShuffles :
               LET dealt == deal_hand(hand, deck, discard_pile, max_hand_size,
                                      selected_to_discard, k)
               IN  /\ discards_remaining' = discards_remaining - 1
                   /\ hand' = ClearSelection(dealt.hand)
                   /\ deck' = dealt.deck
                   /\ discard_pile' = dealt.discard_pile
                   /\ UNCHANGED <<animated_cards, score, points, hand_type, round,
                                  hands_remaining, base_points_required,
                                  points_remaining, game_over,
                                  max_discards_per_round, max_hand_size,
                                  phaseVars, moneyVars>>
        ELSE UNCHANGED gameVars

----------------------------------------------------------------------------
(* Shop purchases (the shop branch of Game.handle_click)                   *)

ShopItems == <<"Extra Discard", "Larger Hand", "Bonus Points">>

\* variant of item_cost: every item at the price of the first
item_cost_flat(name) == CostExtraDiscard

\* variant of item_cost: the price list read as cents, not as dollars
item_cost_in_cents(name) ==
    CASE name = "Extra Discard" -> CostExtraDiscard \div 100
      [] name = "Larger Hand"   -> CostLargerHand \div 100
      [] name = "Bonus Points"  -> CostBonusPoints \div 100

item_cost(name) ==
    CASE name = "Extra Discard" -> CostExtraDiscard
      [] name = "Larger Hand"   -> CostLargerHand
      [] name = "Bonus Points"  -> CostBonusPoints

\* variant of CanAfford: the balance is not tested
CanAffordAnything(cost) == TRUE

CanAfford(cost) == money >= cost

buy_item(name) ==
    IF CanAfford(item_cost(name))
    THEN /\ money' = money - item_cost(name)
         /\ max_discards_per_round' =
                IF name = "Extra Discard" THEN max_discards_per_round + 1
                ELSE max_discards_per_round
         /\ max_hand_size' =
                IF name = "Larger Hand" THEN max_hand_size + 1 ELSE max_hand_size
         /\ UNCHANGED <<cardVars, score, points, hand_type, round, hands_remaining,
                        base_points_required, points_remaining, game_over,
                        discards_remaining, phaseVars,
                        money_earned_this_round, interest_earned_this_round>>
    ELSE UNCHANGED gameVars

----------------------------------------------------------------------------
(* Game.start_next_round                                                   *)

\* variant of NextTarget: 1.5 x base rounded to nearest, halves up
NextTargetRounded(base) == (base * 3 + 1) \div 2

\* int(self.base_points_required * 1.5)
NextTarget(base) == (base * 3) \div 2

\* variant of MoneyCarriedOver: the balance starts at zero in every round
MoneyResetEachRound(balance) == 0

\* the money persists across rounds: start_next_round does not assign it
MoneyCarriedOver(balance) == balance

\* variant of DiscardsForRound: the starting allowance, upgrades forgotten
DiscardsForRoundFixed(allowance) == StartingDiscards

\* self.discards_remaining = self.max_discards_per_round
DiscardsForRound(allowance) == allowance

start_next_round ==
    \E k \in 1 .. NumShuffles :
        \* create_deck() replaces the deck; the hand and the discard pile stay
        LET dealt == deal_hand(hand, create_deck[k], discard_pile,
                               max_hand_size, << >>, k)
        IN  /\ round' = round + 1
            /\ score' = 0
            /\ points' = 0
            /\ hand_type' = "NONE"
            /\ hands_remaining' = StartingHands
            /\ base_points_required' = NextTarget(base_points_required)
            /\ points_remaining' = NextTarget(base_points_required)
            /\ discards_remaining' = DiscardsForRound(max_discards_per_round)
            /\ round_complete' = FALSE
            /\ show_round_recap' = FALSE
            /\ show_shop_menu' = FALSE
            /\ money_earned_this_round' = 0
            /\ interest_earned_this_round' = 0
            /\ scoring_animation' = FALSE
            /\ animated_cards' = << >>
            /\ animation_elapsed' = 0
            /\ deck' = dealt.deck
            /\ hand' = dealt.hand
            /\ discard_pile' = dealt.discard_pile
            /\ money' = MoneyCarriedOver(money)
            /\ UNCHANGED <<game_over, max_discards_per_round, max_hand_size,
                           round_complete_animation, round_complete_elapsed>>

----------------------------------------------------------------------------
(* Game.restart_game                                                       *)

\* variant of MoneyAfterRestart: the balance survives the restart
MoneyKeptOnRestart(balance) == balance

\* self.money = 0.0
MoneyAfterRestart(balance) == 0

restart_game ==
    \E k \in 1 .. NumShuffles :
        LET dealt == deal_hand(<< >>, create_deck[k], << >>,
                               StartingHandSize, << >>, k)
        IN  /\ round' = 1
            /\ round_complete' = FALSE
            /\ deck' = dealt.deck
            /\ hand' = dealt.hand
            /\ discard_pile' = dealt.discard_pile
            /\ score' = 0
            /\ points' = 0
            /\ hand_type' = "NONE"
            /\ hands_remaining' = StartingHands
            /\ base_points_required' = StartingTarget
            /\ points_remaining' = StartingTarget
            /\ game_over' = FALSE
            /\ max_discards_per_round' = StartingDiscards
            /\ max_hand_size' = StartingHandSize
            /\ discards_remaining' = StartingDiscards
            /\ scoring_animation' = FALSE
            /\ animated_cards' = << >>
            /\ animation_elapsed' = 0
            /\ money' = MoneyAfterRestart(money)
            /\ money_earned_this_round' = 0
            /\ interest_earned_this_round' = 0
            /\ show_round_recap' = FALSE
            /\ show_shop_menu' = FALSE
            /\ UNCHANGED <<round_complete_animation, round_complete_elapsed>>

----------------------------------------------------------------------------
(* Game.handle_click.  A click is named by the button or card it lands on: *)
(* [kind |-> "restart"], [kind |-> "buy", item |-> name],                  *)
(* [kind |-> "continue"], [kind |-> "shop"], [kind |-> "card", index |-> i]*)
(* (i a position of the hand), [kind |-> "play"], [kind |-> "discard"].    *)
(* The tests are made in the order of the source, so a click that an       *)
(* earlier branch does not take falls through to the later ones.           *)

\* variant of ShopButtonActive: the Shop button works once the target is met
ShopButtonActiveWhenComplete == round_complete

\* variant of ShopButtonActive: the Shop button works in every phase
ShopButtonAlwaysActive == TRUE

\* the Shop button is tested only while the recap is shown
ShopButtonActive == show_round_recap

\* variant of OnlyRestartAccepted: the game-over test is skipped
EveryClickAccepted(over) == FALSE

\* if self.game_over: only the restart button is handled
OnlyRestartAccepted(over) == over

handle_click(c) ==
    IF OnlyRestartAccepted(game_over)
    THEN IF c.kind = "restart" THEN restart_game ELSE UNCHANGED gameVars
    ELSE IF show_shop_menu /\ c.kind = "buy" THEN buy_item(c.item)
    ELSE IF show_shop_menu /\ c.kind = "continue" THEN start_next_round
    ELSE IF ShopButtonActive /\ c.kind = "shop"
         THEN /\ show_shop_menu' = TRUE
              /\ UNCHANGED <<cardVars, roundVars, moneyVars, scoring_animation,
                             animation_elapsed, round_complete_animation,
                             round_complete_elapsed, show_round_recap, round_complete>>
    ELSE IF c.kind = "card" THEN toggle_card_selection(c.index)
    ELSE IF c.kind = "play" THEN play_hand
    ELSE IF c.kind = "discard" THEN discard_selected
    ELSE UNCHANGED gameVars

----------------------------------------------------------------------------
(* Game.update_scoring_animation and Game.update_round_complete_animation, *)
(* called in this order by Game.draw once per frame; dt is the time since  *)
(* the previous frame.                                                     *)

\* variant of Interest: 20% truncated to whole cents
InterestTruncated(m) == m \div 5

\* round(self.money * 0.20, 2), in cents (nearest; m/5 is never a tie)
Interest(m) == (m + 2) \div 5

ScoringDone(elapsed) == elapsed >= ScoringEnd

\* variant of RoundCompleteDone: strictly more than 1.5 s
RoundCompleteDoneLate(elapsed) == elapsed > RoundCompleteEnd

RoundCompleteDone(elapsed) == elapsed >= RoundCompleteEnd

update_scoring_animation(dt) ==
    IF ~scoring_animation
    THEN UNCHANGED <<scoring_animation, animation_elapsed, hand, deck, discard_pile>>
    ELSE IF ScoringDone(animation_elapsed + dt)
         THEN \E k \in 1 .. NumShuffles :
                LET dealt == deal_hand(hand, deck, discard_pile, max_hand_size,
                                       << >>, k)
                IN  /\ scoring_animation' = FALSE
                    /\ animation_elapsed' = 0
                    /\ hand' = dealt.hand
                    /\ deck' = dealt.deck
                    /\ discard_pile' = dealt.discard_pile
         ELSE /\ animation_elapsed' = animation_elapsed + dt
              /\ UNCHANGED <<scoring_animation, hand, deck, discard_pile>>

update_round_complete_animation(dt) ==
    IF ~round_complete_animation
    THEN UNCHANGED <<round_complete_animation, round_complete_elapsed,
                     show_round_recap, money, interest_earned_this_round>>
    ELSE IF RoundCompleteDone(round_complete_elapsed + dt)
         THEN /\ round_complete_animation' = FALSE
              /\ round_complete_elapsed' = 0
              /\ show_round_recap' = TRUE
              /\ interest_earned_this_round' = Interest(money)
              /\ money' = money + Interest(money)
         ELSE /\ round_complete_elapsed' = round_complete_elapsed + dt
              /\ UNCHANGED <<round_complete_animation, show_round_recap, money,
                             interest_earned_this_round>>

draw(dt) ==
    /\ update_scoring_animation(dt)
    /\ update_round_complete_animation(dt)
    /\ UNCHANGED <<animated_cards, roundVars, round_complete, show_shop_menu,
                   money_earned_this_round>>

----------------------------------------------------------------------------
(* The intents of the player and the frame tick (Game.run).  The player    *)
(* model bounds the exploration; the handlers are the code's.              *)

\* The player selects cards from the left and deselects from the right:
\* a card click lands on the first unselected card or on the card before it.
FirstUnselected ==
    IF \E i \in 1 .. Len(hand) : ~hand[i].selected
    THEN CHOOSE i \in 1 .. Len(hand) :
            ~hand[i].selected /\ \A j \in 1 .. (i - 1) : hand[j].selected
    ELSE Len(hand) + 1

ClickableCards ==
    {i \in 1 .. Min(Len(hand), MaxClickIndex) :
        i = FirstUnselected \/ i = FirstUnselected - 1}

\* Play Hand and Discard are clicked with nothing selected or with a full
\* selection (five cards, or the whole hand when it is shorter).
NoneOrFullSelection ==
    \/ NumSelected(hand) = 0
    \/ NumSelected(hand) >= Min(MaxSelected, Len(hand))

\* The table (cards, Play Hand, Discard) is on screen and enabled: no
\* animation runs and neither the recap nor the shop covers it (Game.draw).
PlayerSeesTable ==
    /\ ~scoring_animation
    /\ ~round_complete_animation
    /\ ~show_round_recap
    /\ ~show_shop_menu

ClickCard(i)  == handle_click([kind |-> "card", index |-> i]) /\ UNCHANGED interest_count
ClickPlay     == handle_click([kind |-> "play"]) /\ UNCHANGED interest_count
ClickDiscard  == handle_click([kind |-> "discard"]) /\ UNCHANGED interest_count
ClickShop     == handle_click([kind |-> "shop"]) /\ UNCHANGED interest_count
ClickBuy(n)   == handle_click([kind |-> "buy", item |-> n]) /\ UNCHANGED interest_count
ClickContinue ==
    /\ handle_click([kind |-> "continue"])
    /\ interest_count' = IF round' # round THEN 0 ELSE interest_count
ClickRestart  ==
    /\ handle_click([kind |-> "restart"])
    /\ interest_count' = IF game_over /\ ~game_over' THEN 0 ELSE interest_count

Tick ==
    /\ \E dt \in MinTickStep .. MaxTickStep : draw(dt)
    /\ interest_count' =
          IF round_complete_animation /\ ~round_complete_animation'
          THEN interest_count + 1 ELSE interest_count

SelectCard ==
    /\ PlayerSeesTable
    /\ \E i \in ClickableCards : ClickCard(i)

PlayHand ==
    /\ PlayerSeesTable
    /\ NoneOrFullSelection
    /\ hands_remaining > -MaxOverdraw
    /\ ClickPlay

Discard ==
    /\ PlayerSeesTable
    /\ NoneOrFullSelection
    /\ round <= MaxDiscardRound
    /\ ClickDiscard

OpenShop == ClickShop

BuyItem == \E i \in 1 .. Len(ShopItems) : ClickBuy(ShopItems[i])

ContinueRound ==
    /\ round < MaxRound
    /\ ClickContinue

Restart == ClickRestart

Next ==
    \/ Tick
    \/ SelectCard
    \/ PlayHand
    \/ Discard
    \/ OpenShop
    \/ BuyItem
    \/ ContinueRound
    \/ Restart

Spec == Init /\ [][Next]_vars

----------------------------------------------------------------------------
(* The same handlers with a player who clicks cards, Play Hand and Discard *)
(* in any phase (handle_click does not test the phase), within one round.  *)

AnyPhaseSelectCard == \E i \in ClickableCards : ClickCard(i)

AnyPhasePlayHand ==
    /\ NoneOrFullSelection
    /\ hands_remaining > -MaxOverdraw
    /\ ClickPlay

AnyPhaseDiscard ==
    /\ NoneOrFullSelection
    /\ StartingHands - hands_remaining <= MaxPlaysBeforeDiscard
    /\ ClickDiscard

NextAnyPhase ==
    \/ Tick
    \/ AnyPhaseSelectCard
    \/ AnyPhasePlayHand
    \/ AnyPhaseDiscard
    \/ OpenShop
    \/ BuyItem

SpecAnyPhase == Init /\ [][NextAnyPhase]_vars

----------------------------------------------------------------------------
(* Properties of the card sets and of Game.play_hand.                      *)

\* A click on Play Hand that play_hand accepts: the game is not over and at
\* least one card of the hand is selected.
AcceptedPlay == ClickPlay /\ ~game_over /\ NumSelected(hand) > 0

\* The play that brings points_remaining from above 0 to 0.
CompletingPlay == AcceptedPlay /\ points_remaining > 0 /\ points_remaining' = 0

\* C1: at every moment the deck, the discard pile and the hand together hold
\* exactly the 35 distinct cards, each of them once.
CardConservation ==
    /\ Len(deck) + Len(discard_pile) + Len(hand) = NumSuits * NumRanks
    /\ Identities(deck) \cup Identities(discard_pile) \cup Identities(hand)
          = Identities(FullDeck)

\* C2: an accepted Play Hand adds the score of the selected cards to the
\* round score, lowers points_remaining by it but not below 0, and lowers
\* hands_remaining by exactly 1.
PlayUpdatesCounters ==
    [][AcceptedPlay =>
         LET pts == calculate_hand_score(SelectedOf(hand))[2]
         IN  /\ score' = score + pts
             /\ points_remaining' =
                    (IF points_remaining - pts > 0 THEN points_remaining - pts ELSE 0)
             /\ hands_remaining' = hands_remaining - 1]_vars

\* a play has just been accepted that scored more than was left of the target
PlayOvershotTarget ==
    /\ scoring_animation /\ animation_elapsed = 0
    /\ hands_remaining = StartingHands - 1
    /\ points = score
    /\ score > base_points_required
    /\ points_remaining = 0

\* C3: when hands_remaining is 0 and the round score is below the round's
\* original target, game_over is set.
GameOverWhenHandsExhausted ==
    (hands_remaining = 0 /\ score < base_points_required) => game_over

\* C4: the play that brings points_remaining to 0 completes the round and
\* starts the round-complete animation, whatever hands_remaining is, the last
\* hand included, and it does not set game_over.
CompletingPlayCompletesRound ==
    [][CompletingPlay =>
         /\ round_complete'
         /\ round_complete_animation'
         /\ round_complete_elapsed' = 0
         /\ ~game_over']_vars

\* the round has just been completed by its last hand
CompletedOnLastHand ==
    /\ scoring_animation /\ animation_elapsed = 0
    /\ round_complete /\ round_complete_animation /\ round_complete_elapsed = 0
    /\ hands_remaining = 0
    /\ ~game_over

\* C5: the completing play adds one dollar per hand that remained before its
\* own decrement and records the amount in money_earned_this_round; every
\* other play leaves money and money_earned_this_round alone.
AwardOncePerRound ==
    [][AcceptedPlay =>
         IF points_remaining > 0 /\ points_remaining' = 0
         THEN /\ money' = money + 100 * hands_remaining
              /\ money_earned_this_round' = 100 * hands_remaining
         ELSE /\ money' = money
              /\ money_earned_this_round' = money_earned_this_round]_vars

\* a hand has just been played in a round that the first hand completed
PlayedAfterCompletion ==
    /\ scoring_animation /\ animation_elapsed = 0
    /\ round_complete
    /\ hands_remaining = StartingHands - 2
    /\ money_earned_this_round = 100 * StartingHands

----------------------------------------------------------------------------
(* Properties of the interest and of the round targets.                    *)

\* The tick that ends the round-complete animation and shows the recap.
RecapTick == round_complete_animation /\ ~round_complete_animation' /\ Tick

\* C6: the interest applied to a balance m is 20% of m rounded to the nearest
\* cent (no multiple of 5 cents is further than 2 from m), it is recorded in
\* interest_earned_this_round, and the balance becomes m plus the interest.
InterestIsTwentyPercent ==
    [][RecapTick =>
         /\ 5 * interest_earned_this_round' - money \in (-2) .. 2
         /\ money' = money + interest_earned_this_round']_vars

\* the recap shows an interest that was rounded: the balance it was computed
\* from (no purchase has been possible yet) is not a multiple of 5 cents
InterestWasRounded ==
    /\ show_round_recap /\ ~show_shop_menu
    /\ interest_count = 1
    /\ (money - interest_earned_this_round) % 5 # 0

\* C7: in a completed round the interest is applied exactly once, on the
\* first tick at which 1.5 s or more of the round-complete animation have
\* elapsed: the animation never runs on at 1.5 s or beyond, the recap is
\* shown only with the interest applied once, and no other tick changes
\* money.
InterestOncePerRound ==
    /\ [](/\ interest_count <= 1
          /\ round_complete_animation =>
                (interest_count = 0 /\ round_complete_elapsed < RoundCompleteEnd)
          /\ (show_round_recap \/ show_shop_menu) => interest_count = 1)
    /\ [][(Tick /\ money' # money) =>
            (round_complete_animation /\ ~show_round_recap /\ show_round_recap')]_vars

\* the recap of round 1 is still shown after the scoring animation has run
\* out, and the balance is the award plus the interest taken once
InterestTakenOnce ==
    /\ round = 1
    /\ show_round_recap /\ ~show_shop_menu /\ ~scoring_animation
    /\ interest_count = 1
    /\ interest_earned_this_round > 0
    /\ money = money_earned_this_round + interest_earned_this_round

\* 1.5 x p with the fraction dropped: the t with 2t <= 3p < 2t + 2
OneAndAHalf(p) == CHOOSE t \in p .. (2 * p) : 2 * t <= 3 * p /\ 3 * p < 2 * t + 2

RECURSIVE TargetOfRound(_)
TargetOfRound(r) == IF r <= 1 THEN 100 ELSE OneAndAHalf(TargetOfRound(r - 1))

\* C8: the target of round n + 1 is 1.5 times the target of round n with the
\* fraction dropped (100, 150, 225, 337 for rounds 1 to 4), and a round
\* starts with points_remaining equal to its target.
TargetSchedule ==
    /\ base_points_required = TargetOfRound(round)
    /\ round <= 4 => base_points_required = <<100, 150, 225, 337>>[round]
    /\ score = 0 => points_remaining = base_points_required

\* round 4 has just begun
RoundFourBegins ==
    /\ round = 4
    /\ score = 0 /\ hands_remaining = StartingHands
    /\ base_points_required = 337 /\ points_remaining = 337

----------------------------------------------------------------------------
(* Requests that the handlers ignore.                                      *)

\* C9: a click on Discard with no discards left changes nothing: the hand
\* with its selection flags, the deck, the discard pile and every counter
\* stay as they are.
DiscardAtZeroIgnored ==
    [][(ClickDiscard /\ discards_remaining = 0) => UNCHANGED gameVars]_vars

\* the player may click Discard with cards selected and no discards left
DiscardsUsedUp ==
    /\ PlayerSeesTable /\ ~game_over /\ round <= MaxDiscardRound
    /\ discards_remaining = 0
    /\ NumSelected(hand) = MaxSelected

\* C10: a click on Play Hand or on Discard with no card selected changes
\* nothing.
EmptySelectionIgnored ==
    [][((ClickPlay \/ ClickDiscard) /\ NumSelected(hand) = 0) =>
         UNCHANGED gameVars]_vars

\* nothing is selected while a discard is left and a hand can be played
NothingSelected ==
    /\ ~game_over
    /\ NumSelected(hand) = 0 /\ Len(hand) > 0
    /\ hands_remaining = StartingHands
    /\ discards_remaining = StartingDiscards - 1

----------------------------------------------------------------------------
(* Properties of the Discard branch and of the selection.                  *)

\* A click on Discard that the handler accepts.
AcceptedDiscard ==
    ClickDiscard /\ ~game_over /\ discards_remaining > 0 /\ NumSelected(hand) >= 1

\* The hand an accepted Discard leaves: the unselected cards in their order,
\* then the cards taken one by one from the end of the deck, none selected.
HandAfterDiscard ==
    LET kept == UnselectedOf(hand)
        n    == Len(hand') - Len(kept)
    IN  /\ n >= 0 /\ n <= Len(deck)
        /\ n = IF max_hand_size - Len(kept) < Len(deck)
               THEN max_hand_size - Len(kept) ELSE Len(deck)
        /\ hand' = [j \in 1 .. Len(hand') |->
                      IF j <= Len(kept) THEN kept[j]
                      ELSE [deck[Len(deck) + 1 - (j - Len(kept))]
                              EXCEPT !.selected = FALSE]]

CountIn(s, c) == Cardinality({i \in 1 .. Len(s) : s[i] = c})

\* a and b hold the same cards, each as many times
SameCards(a, b) ==
    /\ Len(a) = Len(b)
    /\ \A c \in Range(a) \cup Range(b) : CountIn(a, c) = CountIn(b, c)

AtMostFiveSelected ==
    /\ [](NumSelected(hand) <= MaxSelected)
    /\ [][\A i \in 1 .. Len(hand) :
            (ClickCard(i) /\ ~hand[i].selected /\ NumSelected(hand) = MaxSelected)
                => UNCHANGED gameVars]_vars

----------------------------------------------------------------------------
(* Properties of the phases.                                               *)

\* C13: a click on a card while the scoring animation runs changes no
\* card's selected flag.
NoSelectionDuringScoring ==
    [][(scoring_animation /\ \E i \in 1 .. Len(hand) : ClickCard(i))
          => hand' = hand]_vars

\* C14: a click on Play Hand or on Discard outside the Playing phase (during
\* the scoring animation, the round-complete animation, the recap or the
\* shop) leaves score, points_remaining, hands_remaining,
\* discards_remaining, the hand, the piles and the timers as they are.
PlayAndDiscardOnlyWhilePlaying ==
    [][((ClickPlay \/ ClickDiscard) /\ ~PlayerSeesTable) =>
         UNCHANGED <<score, points_remaining, hands_remaining,
                     discards_remaining, hand, deck, discard_pile,
                     scoring_animation, animation_elapsed,
                     round_complete_animation, round_complete_elapsed>>]_vars

\* C15: a step that is not a tick (a click of the player) leaves a running
\* scoring animation and a running round-complete animation running, with
\* their timers as they are: only a tick ends them.
PhasesNotCancellable ==
    [][~Tick =>
         /\ scoring_animation =>
               (scoring_animation' /\ animation_elapsed' = animation_elapsed)
         /\ round_complete_animation =>
               (round_complete_animation'
                  /\ round_complete_elapsed' = round_complete_elapsed)]_vars

\* C16: an accepted Play Hand takes the played cards out of the hand at
\* once; from then on, until 3.5 s have elapsed, the scoring animation is
\* running and no card is dealt, whatever happens in between; the tick that
\* takes the elapsed time to 3.5 s or beyond ends it and deals.  Time only
\* passes in ticks, so the timer of a running animation is the time since
\* the play as long as no other step touches it.
ScoringPhaseLastsThreeAndAHalfSeconds ==
    /\ [](scoring_animation => animation_elapsed < ScoringEnd)
    /\ [][/\ AcceptedPlay =>
               (hand' = UnselectedOf(hand) /\ scoring_animation'
                  /\ animation_elapsed' = 0)
          /\ (scoring_animation /\ Tick) =>
               \/ /\ scoring_animation'
                  /\ animation_elapsed' > animation_elapsed
                  /\ hand' = hand /\ deck' = deck
               \/ /\ ~scoring_animation'
                  /\ animation_elapsed + MaxTickStep >= ScoringEnd
                  /\ Len(hand') >= Len(hand)
                  /\ SubSeq(hand', 1, Len(hand)) = hand
          /\ (scoring_animation /\ ~Tick /\ ~AcceptedPlay) =>
               /\ scoring_animation' /\ animation_elapsed' = animation_elapsed
               /\ Len(hand') = Len(hand) /\ deck' = deck]_vars

\* C17: every deal, at the end of a scoring animation or in a Discard,
\* fills the hand to exactly max_hand_size cards.
DealFillsHand ==
    [][((scoring_animation /\ ~scoring_animation' /\ Tick) \/ AcceptedDiscard)
          => Len(hand') = max_hand_size]_vars

----------------------------------------------------------------------------
(* Properties of the shop.                                                 *)

\* C18: the shop opens only by a click on Shop while the recap is shown and
\* the shop is not open yet; no tick and no other click opens it, and a
\* click on Shop in any other phase changes nothing.
ShopOpensOnlyFromRecap ==
    [][/\ (~show_shop_menu /\ show_shop_menu') =>
             (ClickShop /\ ~game_over /\ show_round_recap)
       /\ (ClickShop /\ ~(show_round_recap /\ ~show_shop_menu)) =>
             UNCHANGED gameVars]_vars

\* the shop was opened from the recap while the scoring animation still ran
ShopOpenedFromRecap ==
    /\ show_shop_menu /\ show_round_recap /\ round_complete
    /\ scoring_animation
    /\ interest_count = 1

\* A click on the buy button of item n while the shop is open.
BuyClick(n) == ClickBuy(n) /\ ~game_over /\ show_shop_menu

\* the round counters and the card sets
RoundCounters ==
    <<cardVars, score, points, hand_type, round, hands_remaining,
      base_points_required, points_remaining, game_over, discards_remaining>>

\* C19: a buy with money >= cost lowers money by exactly the cost (5, 10 and
\* 15 dollars); Extra Discard raises max_discards_per_round by 1, Larger
\* Hand raises max_hand_size by 1, nothing else changes them; the shop stays
\* open and the round counters are unchanged.
BuyDeductsCostAndApplies ==
    [][\A n \in {"Extra Discard", "Larger Hand", "Bonus Points"} :
         LET cost == IF n = "Extra Discard" THEN 500
                     ELSE IF n = "Larger Hand" THEN 1000 ELSE 1500
         IN  (BuyClick(n) /\ money >= cost) =>
               /\ money' = money - cost
               /\ max_discards_per_round' =
                      max_discards_per_round + (IF n = "Extra Discard" THEN 1 ELSE 0)
               /\ max_hand_size' =
                      max_hand_size + (IF n = "Larger Hand" THEN 1 ELSE 0)
               /\ show_shop_menu'
               /\ UNCHANGED RoundCounters]_vars

\* both upgrades have been bought and the shop is still open
BoughtBothUpgrades ==
    /\ show_shop_menu
    /\ max_discards_per_round = StartingDiscards + 1
    /\ max_hand_size = StartingHandSize + 1

\* C20: a buy with money < cost changes nothing.
BuyWithoutFundsIgnored ==
    [][\A n \in {"Extra Discard", "Larger Hand", "Bonus Points"} :
         LET cost == IF n = "Extra Discard" THEN 500
                     ELSE IF n = "Larger Hand" THEN 1000 ELSE 1500
         IN  (BuyClick(n) /\ money < cost) => UNCHANGED gameVars]_vars

\* the shop is open and the balance, one dollar, buys nothing
ShopOpenWithoutFunds ==
    /\ show_shop_menu
    /\ money = 100

----------------------------------------------------------------------------
(* Properties of the round transition, of the restart and of game over.    *)

\* A click on Continue while the shop is open.
ContinueInShop == ClickContinue /\ ~game_over /\ show_shop_menu

\* C21: Continue in the open shop raises round by exactly 1, sets
\* hands_remaining to 5 and discards_remaining to the current
\* max_discards_per_round, resets score and points to 0 and hand_type to
\* none, clears round_complete, the recap and the shop, and leaves the game
\* in the playing phase.
ContinueStartsNextRound ==
    [][ContinueInShop =>
         /\ round' = round + 1
         /\ hands_remaining' = 5
         /\ discards_remaining' = max_discards_per_round
         /\ max_discards_per_round' = max_discards_per_round
         /\ score' = 0
         /\ points' = 0
         /\ hand_type' = "NONE"
         /\ ~round_complete'
         /\ ~show_round_recap'
         /\ ~show_shop_menu'
         /\ ~scoring_animation'
         /\ ~round_complete_animation'
         /\ ~game_over']_vars

\* round 2 has begun with the discard bought in the shop
RoundTwoWithExtraDiscard ==
    /\ round = 2
    /\ PlayerSeesTable
    /\ hands_remaining = StartingHands
    /\ max_discards_per_round = StartingDiscards + 1
    /\ discards_remaining = StartingDiscards + 1
    /\ score = 0

\* C22: after Continue the hand holds exactly max_hand_size cards, the
\* discard pile is empty, and deck plus hand are the 35 distinct cards (so
\* no card of the previous round is left in the hand or the pile).
FreshHandAfterContinue ==
    [][ContinueInShop =>
         /\ Len(hand') = max_hand_size
         /\ discard_pile' = << >>
         /\ Len(deck') + Len(hand') = NumSuits * NumRanks
         /\ Identities(deck' \o hand') = Identities(FullDeck)]_vars

\* A click on Restart while the game is over.
RestartInGameOver == ClickRestart /\ game_over

\* C23: Restart in game over gives the state of a new game: round 1, score
\* 0, 5 hands, 3 discards (maximum 3), hand size 8, target and
\* points_remaining 100, money 0, every phase flag clear, 8 unselected cards
\* in the hand and the other 27 of the 35 cards in the deck, an empty
\* discard pile.
RestartGivesNewGame ==
    [][RestartInGameOver =>
         /\ round' = 1
         /\ score' = 0
         /\ points' = 0
         /\ hand_type' = "NONE"
         /\ hands_remaining' = 5
         /\ discards_remaining' = 3
         /\ max_discards_per_round' = 3
         /\ max_hand_size' = 8
         /\ base_points_required' = 100
         /\ points_remaining' = 100
         /\ money' = 0
         /\ money_earned_this_round' = 0
         /\ interest_earned_this_round' = 0
         /\ ~game_over'
         /\ ~round_complete'
         /\ ~show_round_recap'
         /\ ~show_shop_menu'
         /\ ~scoring_animation'
         /\ ~round_complete_animation'
         /\ animated_cards' = << >>
         /\ Len(hand') = 8
         /\ Len(deck') = 27
         /\ NumSelected(hand') = 0
         /\ NumSelected(deck') = 0
         /\ Identities(deck' \o hand') = Identities(FullDeck)
         /\ discard_pile' = << >>]_vars

\* the game is lost in a later round, with money and an upgrade to reset
GameOverAfterShopping ==
    /\ game_over
    /\ round > 1
    /\ money > 0
    /\ max_discards_per_round > StartingDiscards

\* C24: while game_over is set a click on a card, Play Hand, Discard, Shop,
\* Buy or Continue changes nothing, and only a click on Restart clears
\* game_over.
GameOverIsTerminal ==
    [][/\ (game_over /\ (\/ \E i \in 1 .. Len(hand) : ClickCard(i)
                         \/ ClickPlay
                         \/ ClickDiscard
                         \/ ClickShop
                         \/ \E i \in 1 .. Len(ShopItems) : ClickBuy(ShopItems[i])
                         \/ ClickContinue)) => UNCHANGED gameVars
       /\ (game_over /\ ~game_over') => ClickRestart]_vars

\* the game is over and the table is back on screen after the last hand
GameOverTableShown ==
    /\ game_over
    /\ PlayerSeesTable
    /\ hands_remaining = 0
    /\ discards_remaining > 0
    /\ Len(hand) >= MaxSelected

----------------------------------------------------------------------------
(* HandEvaluator.evaluate_hand and Game.calculate_hand_score on the        *)
(* selections of 0 to 5 cards of a starting hand.  random.shuffle leaves   *)
(* the deck sorted by rank or by suit, cut at any place, so that the hands *)
(* hold each rank in its five suits and each suit in its seven ranks; the  *)
(* player has selected some cards, and the score of the selection is       *)
(* computed.                                                               *)

\* the deck is cut at one of the places 0 .. MaxCut
MaxCut == 34

\* the deck orders: sorted by rank (1) or by suit (2), then cut at r
deck_orders ==
    [m \in 1 .. 2, r \in 0 .. MaxCut |->
        Rotate(IF m = 1 THEN SortByRank(FullDeck) ELSE FullDeck, r)]

\* the cards of h at the positions S selected, the others not
WithSelection(h, S) ==
    [i \in 1 .. Len(h) |-> [h[i] EXCEPT !.selected = (i \in S)]]

InitSelection ==
    \E m \in 1 .. 2 : \E r \in 0 .. MaxCut :
    \E S \in SUBSET (1 .. StartingHandSize) :
        LET dealt == deal_hand(<< >>, deck_orders[m, r], << >>,
                               StartingHandSize, << >>, 1)
        IN  /\ Cardinality(S) <= MaxSelected
            /\ hand = WithSelection(dealt.hand, S)
            /\ deck = dealt.deck
            /\ discard_pile = << >>
            /\ animated_cards = << >>
            /\ score = 0
            /\ points = 0
            /\ round = 1
            /\ hand_type = "NONE"
            /\ hands_remaining = StartingHands
            /\ base_points_required = StartingTarget
            /\ points_remaining = StartingTarget
            /\ game_over = FALSE
            /\ max_discards_per_round = StartingDiscards
            /\ discards_remaining = StartingDiscards
            /\ max_hand_size = StartingHandSize
            /\ scoring_animation = FALSE
            /\ animation_elapsed = 0
            /\ round_complete_animation = FALSE
            /\ round_complete_elapsed = 0
            /\ show_round_recap = FALSE
            /\ round_complete = FALSE
            /\ money = 0
            /\ money_earned_this_round = 0
            /\ interest_earned_this_round = 0
            /\ show_shop_menu = FALSE
            /\ interest_count = 0

\* hand_type, score = self.calculate_hand_score(selected), kept in
\* hand_type and points
ScoreSelection ==
    LET result == calculate_hand_score(SelectedOf(hand))
    IN  /\ hand_type' = result[1]
        /\ points' = result[2]
        /\ UNCHANGED <<cardVars, score, round, hands_remaining,
                       base_points_required, points_remaining, game_over,
                       max_discards_per_round, discards_remaining, max_hand_size,
                       phaseVars, moneyVars, interest_count>>

SpecEval == InitSelection /\ [][ScoreSelection]_vars

\* the selection has been scored
Scored == hand_type # "NONE"

\* C25: for every rank, the 5 cards of that rank (one per suit) evaluate to
\* Five of a Kind.
FiveOfAKindForEveryRank ==
    \A r \in Ranks :
        (/\ Scored
         /\ NumSelected(hand) = 5
         /\ RanksOf(SelectedOf(hand)) = {r}
         /\ Cardinality(SuitsOf(SelectedOf(hand))) = 5)
        => hand_type = "FIVE_OF_A_KIND"

\* the five eights have been scored
FiveEightsScored ==
    /\ NumSelected(hand) = 5
    /\ RanksOf(SelectedOf(hand)) = {8}
    /\ hand_type = "FIVE_OF_A_KIND"
    /\ points = 150

\* C26: for every suit, 10 J Q K A of that suit evaluate to Royal Flush (not
\* to Straight Flush), and every other straight of 5 cards in one suit
\* evaluates to Straight Flush.
RoyalFlushForEverySuit ==
    \A i \in 1 .. Len(Suits) : \A lo \in 8 .. 10 :
        (/\ Scored
         /\ NumSelected(hand) = 5
         /\ SuitsOf(SelectedOf(hand)) = {Suits[i]}
         /\ RanksOf(SelectedOf(hand)) = lo .. (lo + 4))
        => hand_type = (IF lo = 10 THEN "ROYAL_FLUSH" ELSE "STRAIGHT_FLUSH")

\* 10 J Q K A of the fifth suit have been scored
RoyalFlushInStarsScored ==
    /\ NumSelected(hand) = 5
    /\ SuitsOf(SelectedOf(hand)) = {"STARS"}
    /\ RanksOf(SelectedOf(hand)) = 10 .. 14
    /\ hand_type = "ROYAL_FLUSH"

\* the selection is Ace, Ace, Ace, King, King
ThreeAcesTwoKings ==
    /\ NumSelected(hand) = 5
    /\ RankCount(SelectedOf(hand), 14) = 3
    /\ RankCount(SelectedOf(hand), 13) = 2

\* C27 as stated: Ace, Ace, Ace, King, King scores Full House and exactly
\* 54 points.
AcesFullOfKingsScores54 ==
    (Scored /\ ThreeAcesTwoKings) => (hand_type = "FULL_HOUSE" /\ points = 54)

\* C27: Ace, Ace, Ace, King, King scores Full House and exactly 58 points
\* (40 + 4 + 4 + 4 + 3 + 3).
AcesFullOfKingsScores58 ==
    (Scored /\ ThreeAcesTwoKings) => (hand_type = "FULL_HOUSE" /\ points = 58)

\* aces full of kings has been scored
AcesFullOfKingsScored == Scored /\ ThreeAcesTwoKings /\ points > 40

\* the base value of a category, as the table lists it
TableValue(t) ==
    CASE t = "HIGH_CARD"       -> 5
      [] t = "PAIR"            -> 10
      [] t = "TWO_PAIR"        -> 20
      [] t = "THREE_OF_A_KIND" -> 30
      [] t = "STRAIGHT"        -> 30
      [] t = "FLUSH"           -> 35
      [] t = "FULL_HOUSE"      -> 40
      [] t = "FOUR_OF_A_KIND"  -> 60
      [] t = "STRAIGHT_FLUSH"  -> 100
      [] t = "ROYAL_FLUSH"     -> 100
      [] t = "FIVE_OF_A_KIND"  -> 150

\* +1 for each Jack, +2 for each Queen, +3 for each King, +4 for each Ace
FaceBonus(cards) ==
    RankCount(cards, 11) + 2 * RankCount(cards, 12)
        + 3 * RankCount(cards, 13) + 4 * RankCount(cards, 14)

\* C28: the points of a non-empty selection are the base value of its
\* category plus max(0, rank - 10) for each of its cards, whichever the
\* category; an empty selection scores (none, 0).
PointsAreBasePlusRankBonus ==
    /\ Scored =>
         /\ NumSelected(hand) >= 1
         /\ points = TableValue(hand_type) + FaceBonus(SelectedOf(hand))
    /\ NumSelected(hand) = 0 => (hand_type = "NONE" /\ points = 0)

\* a flush of 9 J Q K A has been scored: 35 + 1 + 2 + 3 + 4
FlushWithBonusScored ==
    /\ hand_type = "FLUSH"
    /\ NumSelected(hand) = 5
    /\ RanksOf(SelectedOf(hand)) = {9, 11, 12, 13, 14}
    /\ points = 45

----------------------------------------------------------------------------
(* Properties of the resource counters.                                    *)

\* C29: in every reachable state hands_remaining >= 0 and
\* discards_remaining >= 0.
NoNegativeCounter ==
    /\ hands_remaining >= 0
    /\ discards_remaining >= 0

\* C30: points_remaining is never below 0; no step raises points_remaining
\* or hands_remaining except Continue to the next round and Restart.
CountersFallWithinRound ==
    /\ [](points_remaining >= 0)
    /\ [][(\/ points_remaining' > points_remaining
           \/ hands_remaining' > hands_remaining)
          => (ClickContinue \/ ClickRestart)]_vars

\* in round 2 the target has been passed and hands have been used
TargetPassedInRoundTwo ==
    /\ round = 2
    /\ points_remaining = 0
    /\ score > base_points_required
    /\ hands_remaining < StartingHands

----------------------------------------------------------------------------
(* Properties of the deck refill.                                          *)

\* The tick that ends the scoring animation and deals.
DealAfterScoring == Tick /\ scoring_animation /\ ~scoring_animation'

\* the cards left in the deck by a deal to a hand of kept cards
LeftAfterDeal(kept) ==
    SubSeq(deck, 1, Len(deck) - Max(0, Min(max_hand_size - kept, Len(deck))))

\* C31: a deal that leaves fewer than 5 cards in the deck is followed by the
\* refill: the deck then holds exactly the cards left in the deck and the
\* cards of the discard pile, and the discard pile is empty.
RefillKeepsDeckCards ==
    [][/\ (DealAfterScoring /\ Len(LeftAfterDeal(Len(hand))) < 5) =>
            /\ discard_pile' = << >>
            /\ SameCards(deck', LeftAfterDeal(Len(hand)) \o discard_pile)
       /\ (AcceptedDiscard
             /\ Len(LeftAfterDeal(Len(hand) - NumSelected(hand))) < 5) =>
            /\ discard_pile' = << >>
            /\ SameCards(deck', LeftAfterDeal(Len(hand) - NumSelected(hand))
                                   \o discard_pile \o SelectedOf(hand))]_vars

----------------------------------------------------------------------------
(* Selections of fewer than five cards.                                    *)

\* C32: a selection of fewer than 5 cards is never Flush, Straight,
\* Straight Flush or Royal Flush; it is Four of a Kind, Three of a Kind, Two
\* Pair, Pair or High Card, as its rank counts say.
ShortSelectionByRankCounts ==
    (Scored /\ NumSelected(hand) < 5) =>
        LET sel    == SelectedOf(hand)
            twice  == {r \in Ranks : RankCount(sel, r) = 2}
        IN  hand_type =
              (IF \E r \in Ranks : RankCount(sel, r) = 4 THEN "FOUR_OF_A_KIND"
               ELSE IF \E r \in Ranks : RankCount(sel, r) = 3 THEN "THREE_OF_A_KIND"
               ELSE IF Cardinality(twice) = 2 THEN "TWO_PAIR"
               ELSE IF Cardinality(twice) = 1 THEN "PAIR"
               ELSE "HIGH_CARD")

\* four cards of one suit with consecutive ranks have been scored
FourSuitedConnectorsScored ==
    /\ Scored
    /\ NumSelected(hand) = 4
    /\ Cardinality(SuitsOf(SelectedOf(hand))) = 1
    /\ RanksOf(SelectedOf(hand)) = 11 .. 14
    /\ hand_type = "HIGH_CARD"

----------------------------------------------------------------------------
(* Properties of the economy.                                              *)

Economy == <<money, max_discards_per_round, max_hand_size>>

\* C34: Continue to the next round leaves money, max_discards_per_round and
\* max_hand_size unchanged; a limit is lowered only by Restart, and the
\* three are brought back to 0.00, 3 and 8 only by Restart.
EconomyPersistsAcrossRounds ==
    [][/\ ContinueInShop => UNCHANGED Economy
       /\ (\/ max_discards_per_round' < max_discards_per_round
           \/ max_hand_size' < max_hand_size
           \/ (Economy' = <<0, 3, 8>> /\ Economy # <<0, 3, 8>>))
          => ClickRestart]_vars

\* round 2 has begun with the money and the upgrade of round 1
RoundTwoWithSavings ==
    /\ round = 2
    /\ ~show_shop_menu
    /\ money = 100
    /\ max_discards_per_round = StartingDiscards + 1
    /\ max_hand_size = StartingHandSize

\* C35: money is never negative in a reachable state.
MoneyNeverNegative == money >= 0

\* C36: no card in the deck or in the discard pile is flagged selected.
SelectedOnlyInHand ==
    /\ NumSelected(deck) = 0
    /\ NumSelected(discard_pile) = 0

----------------------------------------------------------------------------
(* Properties of the order of the phases and of the end of a round.        *)

\* the target of the round is met and its interest has been applied
InterestApplied ==
    /\ round_complete
    /\ points_remaining = 0
    /\ show_round_recap
    /\ interest_count = 1

\* C37: the round number is raised only by Continue in the open shop, after
\* the target was met and the recap was shown with the interest applied;
\* a purchase takes effect only after the interest of the round was applied.
RoundAdvancesInOrder ==
    [][/\ round' > round =>
            (ClickContinue /\ show_shop_menu /\ InterestApplied)
       /\ \A i \in 1 .. Len(ShopItems) :
            (BuyClick(ShopItems[i]) /\ money' # money) => InterestApplied]_vars

\* round 3 has begun with the larger hand bought in the shop of round 2
RoundThreeAfterPurchase ==
    /\ round = 3
    /\ PlayerSeesTable
    /\ hands_remaining = StartingHands
    /\ interest_count = 0
    /\ max_hand_size = StartingHandSize + 1

\* C38: in the playing phase (no animation, no recap or shop, round not
\* complete, game not over) the hand is not empty and hands_remaining > 0.
PlayingPhaseCanPlay ==
    (PlayerSeesTable /\ ~round_complete /\ ~game_over) =>
        (Len(hand) > 0 /\ hands_remaining > 0)

====
